---------------------------- MODULE Spec2Model ----------------------------
(***************************************************************************)
(* Retrieval pipeline of the legal RAG services: rag_service.py (local     *)
(* ChromaDB backend) and pinecone_service.py (remote Pinecone backend).    *)
(*                                                                         *)
(* Texts are values of the run-length form <<[c |-> ch, n |-> count],...>> *)
(* (adjacent runs have different characters, every count is positive), so  *)
(* that the program's own constants (1500, 200, 100, 50, 1000, 1200) are   *)
(* used unscaled.  Positions are 0-based as in Python.                     *)
(***************************************************************************)
EXTENDS Integers, Sequences, FiniteSets, TLC

(***************************************************************************)
(* Bounds of the model (not program constants).                            *)
(***************************************************************************)
MaxRuns == 3
\* a text is chunked a second time only when it has at most this many runs
MaxRunsAgain == 2
\* the per-process keys of str hashing are 0 .. MaxHashKey
MaxHashKey == 1

(***************************************************************************)
(* Program constants.                                                      *)
(***************************************************************************)
chunk_size == 1500
chunk_overlap == 200
SnapWindow == 200
MinTextLen == 100
MinChunkLen == 50
batch_size == 100
MetadataTextLimit == 1000
ExcerptLimit == 1200
embedding_dimension == 768
EmbedInputLimit == 8000

\* the characters the model draws texts from, and the run lengths
Chars == {"a", " ", ".", "\n"}
RunLens == {1, 49, 50, 200, 1300}
\* str.strip() removes these; the snap loop looks for those
Whitespace == {" ", "\n"}
SentenceEnd == {".", "!", "?", "\n"}

VARIABLES
    ck_text,      \* chunk_text: the text argument of the last call
    ck_src,       \* chunk_text: the source_file argument
    ck_cat,       \* chunk_text: the category argument
    ck_wins,      \* the iterations of the while loop of the last call
    ck_chunks,    \* the list the last call returned
    ck_prev,      \* inputs and result of the call before it (<<>> if none)
    ck_pc,        \* "idle" before the first call, "done" after a call
    hash_key,     \* the key of str hashing of the running interpreter
    genai_client, \* self.genai_client is set (TRUE) or None (FALSE)
    random_state, \* the state of the module-level generator of `random`
    em_first,     \* text -> the first fallback vector returned for it
    em_last,      \* the last call of _get_embedding and what it returned
    backend,      \* "chroma" (RAGService) or "pinecone" (PineconeRAGService)
    service,      \* the module-level instance: "none" or "ready"
    collection,   \* the backend's collection / index: id -> entry
    is_indexed,   \* RAGService.is_indexed
    ix_pc,        \* index_documents: "idle" or "run"
    ix_files,     \* index_documents: the files the walk has still to yield
    ix_stats,     \* index_documents: stats
    ix_all_chunks,\* index_documents: all_chunks
    ix_i,         \* index_documents: offset of the next batch
    ix_writes,    \* index_documents: the write calls made so far, each the
                  \* ids of the entries handed to the store
    ix_corpus,    \* the directory tree the current run was started on
    gen,          \* whether the store was cleared since the last run, and
                  \* the ids it held before
    last,         \* the last call that ended: [op, arg, result, raised]
    sessions,     \* the browser sessions of the app: session -> its state
    peer          \* the remote service run side by side with the local one

ckvars == <<ck_text, ck_src, ck_cat, ck_wins, ck_chunks, ck_prev, ck_pc>>
emvars == <<hash_key, genai_client, random_state, em_first, em_last>>

ixvars == <<ix_pc, ix_files, ix_stats, ix_all_chunks, ix_i, ix_writes,
            ix_corpus>>
\* the variables of the runs with several sessions or with both services
scvars == <<sessions, peer>>
svvars == <<backend, service, collection, is_indexed, ixvars, gen, last,
            scvars>>

vars == <<ckvars, emvars, svvars>>

ZeroStats == [processed |-> 0, chunks |-> 0, errors |-> 0, skipped |-> 0]
NoGen == [cleared |-> FALSE, prior |-> {}]
NoLast == [op |-> "none", arg |-> <<>>, result |-> <<>>, raised |-> FALSE]

\* one service and one caller: no session, no second service
ScOff ==
    /\ sessions = <<>>
    /\ peer = <<>>

\* the services are not part of the run
SvOff ==
    /\ backend = "none"
    /\ service = "none"
    /\ collection = <<>>
    /\ is_indexed = FALSE
    /\ ix_pc = "off"
    /\ ix_files = <<>>
    /\ ix_stats = ZeroStats
    /\ ix_all_chunks = <<>>
    /\ ix_i = 0
    /\ ix_writes = <<>>
    /\ ix_corpus = <<>>
    /\ gen = NoGen
    /\ last = NoLast
    /\ ScOff

----------------------------------------------------------------------------
(***************************************************************************)
(* Strings in run-length form.                                             *)
(***************************************************************************)
Min2(a, b) == IF a < b THEN a ELSE b
Max2(a, b) == IF a > b THEN a ELSE b
MinOf(S) == CHOOSE x \in S : \A y \in S : x <= y
MaxOf(S) == CHOOSE x \in S : \A y \in S : x >= y

Run(ch, k) == [c |-> ch, n |-> k]

RECURSIVE StrLen(_)
StrLen(s) == IF s = <<>> THEN 0 ELSE Head(s).n + StrLen(Tail(s))

\* s[i] for 0 <= i < len(s)
RECURSIVE CharAt(_, _)
CharAt(s, i) ==
    IF i < Head(s).n THEN Head(s).c ELSE CharAt(Tail(s), i - Head(s).n)

\* appends one run, merging it with the last run when the character is equal
AppendRun(s, r) ==
    IF r.n <= 0 THEN s
    ELSE IF s # <<>> /\ s[Len(s)].c = r.c
         THEN [s EXCEPT ![Len(s)] = Run(r.c, s[Len(s)].n + r.n)]
         ELSE Append(s, r)

RECURSIVE Concat(_, _)
Concat(s, t) == IF t = <<>> THEN s ELSE Concat(AppendRun(s, Head(t)), Tail(t))

\* s[a:b] for 0 <= a; b is clamped to len(s) as Python does
RECURSIVE Slice(_, _, _)
Slice(s, a, b) ==
    IF s = <<>> \/ b <= 0 \/ a >= b THEN <<>>
    ELSE LET k == Head(s).n
             lo == Min2(a, k)
             hi == Min2(b, k)
         IN  Concat(IF hi > lo THEN <<Run(Head(s).c, hi - lo)>> ELSE <<>>,
                    Slice(Tail(s), Max2(a - k, 0), b - k))

\* number of leading / trailing whitespace characters of s
RECURSIVE LeadingWs(_)
LeadingWs(s) ==
    IF s = <<>> \/ Head(s).c \notin Whitespace THEN 0
    ELSE Head(s).n + LeadingWs(Tail(s))

RECURSIVE TrailingWs(_)
TrailingWs(s) ==
    IF s = <<>> \/ s[Len(s)].c \notin Whitespace THEN 0
    ELSE s[Len(s)].n + TrailingWs(SubSeq(s, 1, Len(s) - 1))

\* str.strip()
Strip(s) ==
    LET n == StrLen(s)
        l == LeadingWs(s)
    IN  IF l = n THEN <<>> ELSE Slice(s, l, n - TrailingWs(s))

\* s[:k]
Prefix(s, k) == Slice(s, 0, k)
\* s[-k:] for k > 0
Suffix(s, k) == Slice(s, Max2(StrLen(s) - k, 0), StrLen(s))

----------------------------------------------------------------------------
(***************************************************************************)
(* Chunk ids.  hashlib.md5 is taken as collision free: the digest is       *)
(* represented by the tagged message it was computed from.                 *)
(***************************************************************************)
MD5(msg) == <<"md5", msg>>

\* (mutation) a hash of the chunk's content
ChunkIdOfContent(source_file, category, text, chunk_index) ==
    MD5(<<source_file, text, chunk_index>>)

\* (mutation) the id is computed from the index alone
ChunkIdOfIndex(source_file, category, text, chunk_index) ==
    MD5("_" \o ToString(chunk_index))

\* hashlib.md5(f"{source_file}_{chunk_index}".encode()).hexdigest()
ChunkId(source_file, category, text, chunk_index) ==
    MD5(source_file \o "_" \o ToString(chunk_index))

DocumentChunk(id, text, source_file, category, chunk_index) ==
    [id |-> id, text |-> text, source_file |-> source_file,
     category |-> category, chunk_index |-> chunk_index]

(***************************************************************************)
(* chunk_text.                                                             *)
(***************************************************************************)
\* (mutation) the scan goes on to the last hit of the range: no break
SnapEndFarthest(text, start, end) ==
    IF end < StrLen(text)
    THEN LET hits == {i \in 0 .. (Min2(SnapWindow, end - start) - 1) :
                        CharAt(text, end - i - 1) \in SentenceEnd}
         IN  IF hits = {} THEN end ELSE end - MaxOf(hits)
    ELSE end

\* the for loop with break: the smallest i in range(min(200, end - start))
\* with text[end - i - 1] in '.!?\n' moves end to end - i
SnapEnd(text, start, end) ==
    IF end < StrLen(text)
    THEN LET hits == {i \in 0 .. (Min2(SnapWindow, end - start) - 1) :
                        CharAt(text, end - i - 1) \in SentenceEnd}
         IN  IF hits = {} THEN end ELSE end - MinOf(hits)
    ELSE end

\* (mutation) the floor test with >= in place of >
EmitsFrom50(stripped) == stripped # <<>> /\ StrLen(stripped) >= MinChunkLen

\* the emission test of one window
Emits(stripped) == stripped # <<>> /\ StrLen(stripped) > MinChunkLen

\* (mutation) the cursor goes back by twice the overlap
NextStartTwice(end) == end - 2 * chunk_overlap

\* the start of the next window
NextStart(end) == end - chunk_overlap

\* (mutation) the index counts every window, dropped ones too
NextIndexOfWindow(emit, chunk_index) == chunk_index + 1

\* chunk_index += 1, inside the if that appends the chunk
NextIndex(emit, chunk_index) == IF emit THEN chunk_index + 1 ELSE chunk_index

\* what one iteration of the while loop does with its slice text[start:end],
\* as a record: the window [start, end), the positions [lo, hi) of the
\* stripped slice in the text, whether a chunk was appended and the index it
\* got
WindowOf(start, end, raw, chunk_index) ==
    LET stripped == Strip(raw)
        lo == start + LeadingWs(raw)
    IN  [start |-> start, end |-> end, lo |-> lo,
         hi |-> lo + StrLen(stripped), text |-> stripped,
         emit |-> Emits(stripped), chunk_index |-> chunk_index]

\* one iteration of the while loop
Iteration(text, start, chunk_index) ==
    LET end == SnapEnd(text, start, start + chunk_size)
    IN  WindowOf(start, end, Slice(text, start, end), chunk_index)

\* while start < len(text)
RECURSIVE ChunkLoop(_, _, _, _)
ChunkLoop(text, start, chunk_index, wins) ==
    IF ~(start < StrLen(text)) THEN wins
    ELSE LET w == Iteration(text, start, chunk_index)
         IN  ChunkLoop(text, NextStart(w.end),
                       NextIndex(w.emit, chunk_index), Append(wins, w))

\* the early return of chunk_text
TooShort(text) == text = <<>> \/ StrLen(text) < MinTextLen

ChunkWindows(text) == IF TooShort(text) THEN <<>> ELSE ChunkLoop(text, 0, 0, <<>>)

RECURSIVE ChunksOf(_, _, _)
ChunksOf(wins, source_file, category) ==
    IF wins = <<>> THEN <<>>
    ELSE LET w == Head(wins)
             rest == ChunksOf(Tail(wins), source_file, category)
         IN  IF w.emit
             THEN <<DocumentChunk(ChunkId(source_file, category, w.text, w.chunk_index),
                                  w.text, source_file, category, w.chunk_index)>> \o rest
             ELSE rest

chunk_text(text, source_file, category) ==
    ChunksOf(ChunkWindows(text), source_file, category)

----------------------------------------------------------------------------
(***************************************************************************)
(* The embedder of PineconeRAGService.  A vector is represented by what    *)
(* determines it: the model and input of the provider call, or the seed    *)
(* the generator was given before the draws.                               *)
(***************************************************************************)
HashKeys == 0 .. MaxHashKey
NoKey == -1

\* hash(text) of a str: keyed by the interpreter's key, which is drawn when
\* the process starts; taken as collision free
PyHash(key, text) == [key |-> key, text |-> text]

Unseeded == [seed |-> PyHash(NoKey, <<>>), drawn |-> 0]

\* random.seed(h)
Seeded(h) == [seed |-> h, drawn |-> 0]

\* [random.uniform(-1, 1) for _ in range(n)]: the draws and the state after
Uniforms(state, n) ==
    [vec   |-> [kind |-> "random", of |-> state.seed, from |-> state.drawn,
                dim |-> n],
     state |-> [state EXCEPT !.drawn = state.drawn + n]]

\* _simple_embedding
simple_embedding(key, text) ==
    Uniforms(Seeded(PyHash(key, text)), embedding_dimension)

\* embed_content(model="text-embedding-004", contents=text[:8000])
ProviderVector(text) ==
    [kind |-> "text-embedding-004",
     of |-> PyHash(NoKey, Slice(text, 0, EmbedInputLimit)), from |-> 0,
     dim |-> embedding_dimension]

\* what a call that ended in an exception leaves in place of a vector
NoVector == [kind |-> "none", of |-> PyHash(NoKey, <<>>), from |-> 0, dim |-> 0]

\* what embed_content does: it answers with an embedding, it raises (timeout,
\* quota, network), or it answers with an empty list of embeddings
ProviderOutcomes == {"ok", "error", "empty"}

\* (mutation) the provider call without the try / except around it
get_embedding_unguarded(client, outcome, key, state, text) ==
    IF client
    THEN IF outcome = "ok"
         THEN [vec |-> ProviderVector(text), state |-> state,
               fallback |-> FALSE, printed |-> FALSE, raised |-> FALSE]
         ELSE [vec |-> NoVector, state |-> state,
               fallback |-> FALSE, printed |-> FALSE, raised |-> TRUE]
    ELSE LET r == simple_embedding(key, text)
         IN  [vec |-> r.vec, state |-> r.state,
              fallback |-> TRUE, printed |-> FALSE, raised |-> FALSE]

\* _get_embedding: with a client, the provider's vector, or on any exception
\* in the try block (the call raised, embeddings[0] of an empty list) the
\* print and the fallback; without a client the fallback
get_embedding(client, outcome, key, state, text) ==
    IF client /\ outcome = "ok"
    THEN [vec |-> ProviderVector(text), state |-> state,
          fallback |-> FALSE, printed |-> FALSE, raised |-> FALSE]
    ELSE LET r == simple_embedding(key, text)
         IN  [vec |-> r.vec, state |-> r.state,
              fallback |-> TRUE, printed |-> client, raised |-> FALSE]

EmbedTexts ==
    {<<Run("a", 30)>>, <<Run("a", 8000)>>, <<Run("a", 8000), Run(".", 1)>>}

NoCall == [text |-> <<>>, vec |-> ProviderVector(<<>>), fallback |-> FALSE,
           printed |-> FALSE, raised |-> FALSE, called |-> FALSE,
           client |-> FALSE, outcome |-> "ok", key |-> NoKey]

EmIdle ==
    /\ hash_key = 0
    /\ genai_client = FALSE
    /\ random_state = Unseeded
    /\ em_first = <<>>
    /\ em_last = NoCall

ChunkIdle ==
    /\ ck_text = <<>>
    /\ ck_src = ""
    /\ ck_cat = ""
    /\ ck_wins = <<>>
    /\ ck_chunks = <<>>
    /\ ck_prev = <<>>
    /\ ck_pc = "off"

EmbedInit ==
    /\ hash_key \in HashKeys
    /\ genai_client \in BOOLEAN
    /\ random_state = Unseeded
    /\ em_first = <<>>
    /\ em_last = NoCall
    /\ ChunkIdle
    /\ SvOff

\* one call of _get_embedding
EmbedCall ==
    /\ \E text \in EmbedTexts, outcome \in ProviderOutcomes :
          LET r == get_embedding(genai_client, outcome, hash_key,
                                 random_state, text)
          IN  /\ random_state' = r.state
              /\ em_last' = [text |-> text, vec |-> r.vec,
                             fallback |-> r.fallback, printed |-> r.printed,
                             raised |-> r.raised, called |-> TRUE,
                             client |-> genai_client, outcome |-> outcome,
                             key |-> hash_key]
              /\ em_first' = IF r.fallback /\ text \notin DOMAIN em_first
                             THEN [t \in DOMAIN em_first \cup {text} |->
                                     IF t = text THEN r.vec ELSE em_first[t]]
                             ELSE em_first
    /\ UNCHANGED <<hash_key, genai_client, ckvars, svvars>>

\* the process ends and a new one constructs the service: a new hash key, a
\* freshly initialised generator, the client set or not
ProcessRestart ==
    /\ hash_key' \in HashKeys
    /\ genai_client' \in BOOLEAN
    /\ random_state' = Unseeded
    /\ UNCHANGED <<em_first, em_last, ckvars, svvars>>

EmbedNext == EmbedCall \/ ProcessRestart

SpecEmbed == EmbedInit /\ [][EmbedNext]_vars

\* C5: Fallback determinism.  Every fallback vector returned for a text
\* equals the first fallback vector returned for that text, whatever calls
\* were made in between and whichever process made the two calls.
C5_FallbackDeterminism ==
    (em_last.called /\ em_last.fallback /\ em_last.text \in DOMAIN em_first)
        => em_last.vec = em_first[em_last.text]

\* C13: Embedder never halts.  Every call of _get_embedding returns a vector
\* of the configured dimension and raises nothing; when the provider call
\* failed or no client is configured it is the fallback vector the running
\* process computes for the same text.
C13_EmbedderNeverHalts ==
    em_last.called =>
        /\ ~em_last.raised
        /\ em_last.vec.dim = embedding_dimension
        /\ (~em_last.client \/ em_last.outcome # "ok") =>
              /\ em_last.fallback
              /\ em_last.vec = simple_embedding(em_last.key, em_last.text).vec
        /\ (em_last.client /\ em_last.outcome = "ok") =>
              em_last.vec = ProviderVector(em_last.text)

\* the provider call of a configured client raised and the call returned
\* the fallback vector
C13_Witness ==
    /\ em_last.called
    /\ em_last.client
    /\ em_last.outcome = "error"
    /\ em_last.fallback
    /\ em_last.vec.kind = "random"

\* C14: Fallback observability.  Every call of _get_embedding that returns
\* a fallback vector produces a signal (the printed line) that tells it from
\* a provider vector, also when no client is configured.
C14_FallbackObservable ==
    (em_last.called /\ em_last.fallback) => em_last.printed

----------------------------------------------------------------------------
(***************************************************************************)
(* The chunker under test: calls of chunk_text on every text of at most    *)
(* MaxRuns runs.                                                           *)
(***************************************************************************)
RECURSIVE TextsOfRuns(_)
TextsOfRuns(k) ==
    IF k = 0 THEN {<<>>}
    ELSE LET shorter == TextsOfRuns(k - 1)
         IN  shorter \cup
             {Append(s, Run(ch, n)) : s \in {t \in shorter : Len(t) = k - 1},
                                      ch \in Chars, n \in RunLens}

Normal(s) == \A i \in 1 .. Len(s) - 1 : s[i].c # s[i + 1].c

\* index_documents hands chunk_text the extractor's text, which is stripped
Texts == {s \in TextsOfRuns(MaxRuns) : Normal(s) /\ Strip(s) = s}

Categories == {"Contract", "General"}

\* a second text for the same source: the document was edited
Edited(text) == Concat(<<Run("a", 1300)>>, text)

ChunkCall(text, source_file, category) ==
    /\ UNCHANGED <<emvars, svvars>>
    /\ ck_text' = text
    /\ ck_src' = source_file
    /\ ck_cat' = category
    /\ ck_wins' = ChunkWindows(text)
    /\ ck_chunks' = chunk_text(text, source_file, category)
    /\ ck_pc' = "done"

ChunkInit ==
    /\ ck_text \in Texts
    /\ ck_src = "Contract/a.pdf"
    /\ ck_cat = "Contract"
    /\ ck_wins = <<>>
    /\ ck_chunks = <<>>
    /\ ck_prev = <<>>
    /\ ck_pc = "idle"
    /\ EmIdle
    /\ SvOff

\* the first call, on the text drawn by ChunkInit
ChunkFirst ==
    /\ ck_pc = "idle"
    /\ ChunkCall(ck_text, ck_src, ck_cat)
    /\ ck_prev' = <<>>

\* the same file is chunked again: unchanged, under another category, or
\* after an edit
ChunkAgain ==
    /\ ck_pc = "done"
    /\ ck_prev = <<>>
    /\ Len(ck_text) <= MaxRunsAgain
    /\ \E how \in {"same", "category", "edited"} :
          /\ ck_prev' = <<[text |-> ck_text, source_file |-> ck_src,
                           category |-> ck_cat, chunks |-> ck_chunks]>>
          /\ ChunkCall(IF how = "edited" THEN Edited(ck_text) ELSE ck_text,
                       ck_src,
                       IF how = "category"
                       THEN CHOOSE c \in Categories : c # ck_cat ELSE ck_cat)

ChunkNext == ChunkFirst \/ ChunkAgain

SpecChunk == ChunkInit /\ [][ChunkNext]_vars

(***************************************************************************)
(* chunk_text one iteration at a time: ck_wins holds the iterations made   *)
(* so far, and the locals start and chunk_index are what the last of them  *)
(* left.  The interpreter runs the loop on, whence the fairness.           *)
(***************************************************************************)
Cursor ==
    IF ck_wins = <<>> THEN 0 ELSE NextStart(ck_wins[Len(ck_wins)].end)

CursorIndex ==
    IF ck_wins = <<>> THEN 0
    ELSE NextIndex(ck_wins[Len(ck_wins)].emit,
                   ck_wins[Len(ck_wins)].chunk_index)

\* the texts the loop is run on: the empty text, prose of one run around
\* the early return and the window size, and prose with one block of
\* sentence ends or blanks where the first window is snapped
LoopTexts ==
    {<<>>}
        \cup {<<Run("a", n)>> : n \in {1, 99, 100, 1500, 1501, 3400}}
        \cup {<<Run("a", p), Run(ch, q), Run("a", r)>> :
                p \in {1100, 1300, 1301, 1499}, ch \in {".", "\n", " "},
                q \in {1, 150, 1500}, r \in {1, 200, 1300, 2000}}

\* before the call
LoopInit ==
    /\ ck_text = <<>>
    /\ ck_src = "Contract/a.pdf"
    /\ ck_cat = "Contract"
    /\ ck_wins = <<>>
    /\ ck_chunks = <<>>
    /\ ck_prev = <<>>
    /\ ck_pc = "idle"
    /\ EmIdle
    /\ SvOff

\* the call up to the while, on any text: the early return, or start = 0,
\* chunk_index = 0
LoopEnter ==
    /\ ck_pc = "idle"
    /\ \E text \in LoopTexts :
          /\ ck_text' = text
          /\ ck_pc' = IF TooShort(text) THEN "done" ELSE "loop"
    /\ ck_wins' = <<>>
    /\ ck_chunks' = <<>>
    /\ UNCHANGED <<ck_src, ck_cat, ck_prev, emvars, svvars>>

\* one iteration of while start < len(text)
LoopStep ==
    /\ ck_pc = "loop"
    /\ Cursor < StrLen(ck_text)
    /\ \E start \in {Cursor} :
       \E end \in {SnapEnd(ck_text, start, start + chunk_size)} :
       \E raw \in {Slice(ck_text, start, end)} :
       \E w \in {WindowOf(start, end, raw, CursorIndex)} :
          ck_wins' = Append(ck_wins, w)
    /\ UNCHANGED <<ck_text, ck_src, ck_cat, ck_chunks, ck_prev, ck_pc, emvars,
                   svvars>>

\* the loop test fails: return chunks
LoopExit ==
    /\ ck_pc = "loop"
    /\ ~(Cursor < StrLen(ck_text))
    /\ ck_chunks' = ChunksOf(ck_wins, ck_src, ck_cat)
    /\ ck_pc' = "done"
    /\ UNCHANGED <<ck_text, ck_src, ck_cat, ck_wins, ck_prev, emvars, svvars>>

LoopNext == LoopEnter \/ LoopStep \/ LoopExit

SpecLoop == LoopInit /\ [][LoopNext]_vars /\ WF_vars(LoopNext)

(***************************************************************************)
(* The scenario of one text file of 3,400 characters: prose ("a") with one *)
(* block of sentence ends or blanks, or with one sentence end in the snap  *)
(* range of each of the first two windows.                                 *)
(***************************************************************************)
ScenarioLen == 3400
ScenarioCuts == {1100, 1250, 1300, 1301, 1400, 1499, 2402, 2600, 2700, 2799}
ScenarioBlocks == {1, 150, 1500}

ScenarioOne(p, ch, q) ==
    <<Run("a", p), Run(ch, q), Run("a", ScenarioLen - p - q)>>

ScenarioTwo(p1, p2) ==
    <<Run("a", p1), Run(".", 1), Run("a", p2 - p1 - 1), Run("\n", 1),
      Run("a", ScenarioLen - p2 - 1)>>

ScenarioTexts ==
    {<<Run("a", ScenarioLen)>>}
        \cup {ScenarioOne(p, ch, q) :
                p \in ScenarioCuts, ch \in {".", "\n", " "},
                q \in {b \in ScenarioBlocks :
                         \A c \in ScenarioCuts : c + b < ScenarioLen}}
        \cup {ScenarioOne(p, ch, 1500) :
                p \in {c \in ScenarioCuts : c < 1500}, ch \in {"\n", " "}}
        \cup {ScenarioTwo(p1, p2) :
                p1 \in {1300, 1400, 1499}, p2 \in {2500, 2601, 2700}}

ScenarioInit ==
    /\ ck_text \in ScenarioTexts
    /\ ck_src = "General/scenario.txt"
    /\ ck_cat = "General"
    /\ ck_wins = <<>>
    /\ ck_chunks = <<>>
    /\ ck_prev = <<>>
    /\ ck_pc = "idle"
    /\ EmIdle
    /\ SvOff

SpecScenario == ScenarioInit /\ [][ChunkNext]_vars

----------------------------------------------------------------------------
(***************************************************************************)
(* Files and extraction.  A name is [lead, rest]: lead is "." or "~$" when *)
(* the name starts with it, "" otherwise.  A file is its directory (names  *)
(* below the root), its name, its extension, whether the extractor can     *)
(* read it, and the text the extractor reads.                              *)
(***************************************************************************)
Name(lead, rest) == [lead |-> lead, rest |-> rest]
NameStr(n) == n.lead \o n.rest

FileOf(dir, name, ext, readable, raw) ==
    [dir |-> dir, name |-> name, ext |-> ext, readable |-> readable, raw |-> raw]

\* os.path.relpath(file_path, resources_path)
RelPath(f) ==
    (IF f.dir = <<>> THEN "" ELSE NameStr(f.dir[1]) \o "/")
        \o NameStr(f.name) \o f.ext

\* rel_path.split(os.sep)[0] if os.sep in rel_path else "General"
CategoryOf(f) == IF f.dir # <<>> THEN NameStr(f.dir[1]) ELSE "General"

\* extract_text_from_pdf / _docx / _txt: the text stripped, "" on exception
Extractor(f) == IF f.readable THEN Strip(f.raw) ELSE <<>>

\* extract_text: dispatch on the extension
extract_text(f) ==
    IF f.ext = ".pdf" THEN Extractor(f)
    ELSE IF f.ext \in {".docx", ".doc"} THEN Extractor(f)
    ELSE IF f.ext \in {".txt", ".md"} THEN Extractor(f)
    ELSE <<>>

\* dirs[:] = [d for d in dirs if not d.startswith('.')]: os.walk yields the
\* files of no directory below a hidden one
Walk(corpus) ==
    SelectSeq(corpus, LAMBDA f : \A k \in 1 .. Len(f.dir) : f.dir[k].lead # ".")

\* file.startswith('~$') or file.startswith('.')
Skipped(f) == f.name.lead = "~$" \/ f.name.lead = "."

\* (mutation) the else branch that counts an empty extraction is missing
VisitFileUncounted(stats, all_chunks, f) ==
    IF Skipped(f)
    THEN [stats |-> [stats EXCEPT !.skipped = @ + 1], all_chunks |-> all_chunks]
    ELSE LET text == extract_text(f) IN
         IF text # <<>>
         THEN LET chunks == chunk_text(text, RelPath(f), CategoryOf(f))
              IN  [stats |-> [stats EXCEPT !.processed = @ + 1,
                                           !.chunks = @ + Len(chunks)],
                   all_chunks |-> all_chunks \o chunks]
         ELSE [stats |-> stats, all_chunks |-> all_chunks]

\* the body of `for file in files`
VisitFile(stats, all_chunks, f) ==
    IF Skipped(f)
    THEN [stats |-> [stats EXCEPT !.skipped = @ + 1], all_chunks |-> all_chunks]
    ELSE LET text == extract_text(f) IN
         IF text # <<>>
         THEN LET chunks == chunk_text(text, RelPath(f), CategoryOf(f))
              IN  [stats |-> [stats EXCEPT !.processed = @ + 1,
                                           !.chunks = @ + Len(chunks)],
                   all_chunks |-> all_chunks \o chunks]
         ELSE [stats |-> [stats EXCEPT !.errors = @ + 1],
               all_chunks |-> all_chunks]

(***************************************************************************)
(* The two stores.  An entry of the local collection is a document with    *)
(* its metadata; an entry of the remote index is a vector with metadata.   *)
(***************************************************************************)
Ids(chunks) == {chunks[k].id : k \in 1 .. Len(chunks)}

\* the last record of the batch with this id
LastWithId(batch, id) ==
    batch[CHOOSE k \in 1 .. Len(batch) :
              /\ batch[k].id = id
              /\ \A j \in (k + 1) .. Len(batch) : batch[j].id # id]

ChromaEntry(c) ==
    [document |-> c.text,
     metadata |-> [source_file |-> c.source_file, category |-> c.category,
                   chunk_index |-> c.chunk_index]]

\* self.collection.add(ids, documents, metadatas): an id the collection
\* already holds keeps its entry
ChromaAdd(store, batch) ==
    [id \in DOMAIN store \cup Ids(batch) |->
        IF id \in DOMAIN store THEN store[id]
        ELSE ChromaEntry(LastWithId(batch, id))]

PineconeEntry(c, vec) ==
    [values |-> vec,
     metadata |-> [text |-> Slice(c.text, 0, MetadataTextLimit),
                   source_file |-> c.source_file, category |-> c.category,
                   chunk_index |-> c.chunk_index, full_text |-> c.text]]

\* (mutation) the vector is computed from the text kept in the metadata
RECURSIVE EmbedBatchOfExcerpt(_, _, _, _, _, _)
EmbedBatchOfExcerpt(batch, client, outcome, key, state, vectors) ==
    IF batch = <<>> THEN [vectors |-> vectors, state |-> state]
    ELSE LET r == get_embedding(client, outcome, key, state,
                                Slice(Head(batch).text, 0, MetadataTextLimit))
         IN  EmbedBatchOfExcerpt(Tail(batch), client, outcome, key, r.state,
                                 Append(vectors, PineconeEntry(Head(batch), r.vec)))

\* for chunk in batch: embedding = self._get_embedding(chunk.text): the
\* vectors of the batch, in order, and the generator's state after them.
\* The loop over a batch of several chunks is the loop over its first half
\* followed by the loop over its second half.
RECURSIVE EmbedBatch(_, _, _, _, _, _)
EmbedBatch(batch, client, outcome, key, state, vectors) ==
    IF batch = <<>> THEN [vectors |-> vectors, state |-> state]
    ELSE IF Len(batch) = 1
    THEN LET r == get_embedding(client, outcome, key, state, Head(batch).text)
         IN  [vectors |-> Append(vectors, PineconeEntry(Head(batch), r.vec)),
              state |-> r.state]
    ELSE CHOOSE res \in
             {EmbedBatch(SubSeq(batch, Len(batch) \div 2 + 1, Len(batch)),
                         client, outcome, key, first.state, first.vectors) :
                 first \in {EmbedBatch(SubSeq(batch, 1, Len(batch) \div 2),
                                       client, outcome, key, state, vectors)}} :
             TRUE

\* self.index.upsert(vectors): writes or overwrites by id
PineconeUpsert(store, batch, vectors) ==
    [id \in DOMAIN store \cup Ids(batch) |->
        IF id \in Ids(batch)
        THEN vectors[CHOOSE k \in 1 .. Len(batch) :
                        /\ batch[k].id = id
                        /\ \A j \in (k + 1) .. Len(batch) : batch[j].id # id]
        ELSE store[id]]

\* (mutation) the delete is not carried out
ClearedNot(store) == store

\* self.index.delete(delete_all=True); delete_collection + create_collection
Cleared(store) == <<>>

\* the entries a query may return: all, or those of one category
NoFilter == "None"
Matching(store, where) ==
    {id \in DOMAIN store :
        where = NoFilter \/ store[id].metadata.category = where}

\* (mutation) the filter is not handed to the backend
WhereOfIgnored(category_filter) == NoFilter

\* if category_filter: where = {"category": {"$eq": category_filter}}
WhereOf(category_filter) ==
    IF category_filter # NoFilter /\ category_filter # ""
    THEN category_filter ELSE NoFilter

\* the backend's nearest-neighbour order is not the program's: the model
\* ranks by a fixed key of the entry, ascending or descending
RankKey(e) ==
    (IF e.metadata.category = "General" THEN 10 ELSE 0) + e.metadata.chunk_index

RECURSIVE Ranked(_, _, _)
Ranked(store, ids, rev) ==
    IF ids = {} THEN <<>>
    ELSE LET first == CHOOSE id \in ids : \A o \in ids :
                        IF rev THEN RankKey(store[id]) >= RankKey(store[o])
                               ELSE RankKey(store[id]) <= RankKey(store[o])
         IN  <<first>> \o Ranked(store, ids \ {first}, rev)

\* collection.query(n_results, where) / index.query(top_k, filter): at most
\* n matches, nearest first, each with its measure in thousandths (a cosine
\* distance for the local store, a similarity score for the remote one)
Query(b, store, n, where, rev) ==
    LET order == Ranked(store, Matching(store, where), rev)
        m == Min2(n, Len(order))
    IN  [k \in 1 .. m |->
           [id |-> order[k],
            measure |-> IF b = "chroma" THEN 150 * k ELSE 1000 - 150 * k]]

Result(text, source_file, category, relevance_score) ==
    [text |-> text, source_file |-> source_file, category |-> category,
     relevance_score |-> relevance_score]

\* RAGService.search
chroma_search(store, indexed, n_results, category_filter, rev) ==
    IF ~indexed \/ Cardinality(DOMAIN store) = 0 THEN <<>>
    ELSE LET matches == Query("chroma", store, n_results,
                              WhereOf(category_filter), rev)
         IN  [k \in 1 .. Len(matches) |->
                LET e == store[matches[k].id]
                IN  Result(e.document, e.metadata.source_file,
                           e.metadata.category, 1000 - matches[k].measure)]

\* (mutation) the text is taken from the truncated copy of the metadata
pinecone_search_excerpt(store, n_results, category_filter, rev) ==
    LET matches == Query("pinecone", store, n_results,
                         WhereOf(category_filter), rev)
    IN  [k \in 1 .. Len(matches) |->
           LET e == store[matches[k].id]
           IN  Result(e.metadata.text, e.metadata.source_file,
                      e.metadata.category, matches[k].measure)]

\* PineconeRAGService.search
pinecone_search(store, n_results, category_filter, rev) ==
    LET matches == Query("pinecone", store, n_results,
                         WhereOf(category_filter), rev)
    IN  [k \in 1 .. Len(matches) |->
           LET e == store[matches[k].id]
           IN  Result(e.metadata.full_text, e.metadata.source_file,
                      e.metadata.category, matches[k].measure)]

search(b, store, indexed, n_results, category_filter, rev) ==
    IF b = "chroma"
    THEN chroma_search(store, indexed, n_results, category_filter, rev)
    ELSE pinecone_search(store, n_results, category_filter, rev)

(***************************************************************************)
(* get_context_for_query.  The returned str is the sequence of its pieces; *)
(* the empty str is <<>>.                                                  *)
(***************************************************************************)
Piece(kind, i, r, pct, excerpt, ellipsis) ==
    [kind |-> kind, i |-> i, source_file |-> r.source_file,
     category |-> r.category, pct |-> pct, excerpt |-> excerpt,
     ellipsis |-> ellipsis]
NoResult == Result(<<>>, "", "", 0)
Literal(kind) == Piece(kind, 0, NoResult, 0, <<>>, FALSE)

\* int(x) truncates towards zero; score is in thousandths, so score * 100 is
\* score / 10
IntPct(score) == IF score >= 0 THEN score \div 10 ELSE -((-score) \div 10)

\* (mutation) the excerpt is cut but never marked
BlockUnmarked(i, r) ==
    Piece("document", i, r, IntPct(r.relevance_score),
          Slice(r.text, 0, ExcerptLimit), FALSE)

\* one entry of the for loop: the f-string of a result
Block(i, r) ==
    Piece("document", i, r, IntPct(r.relevance_score),
          Slice(r.text, 0, ExcerptLimit), StrLen(r.text) > ExcerptLimit)

RECURSIVE JoinLines(_)
JoinLines(parts) ==
    IF Len(parts) <= 1 THEN parts
    ELSE <<Head(parts), Literal("newline")>> \o JoinLines(Tail(parts))

\* (mutation) no early return: the banner and the trailer are always built
ContextAlways(results) ==
    JoinLines(<<Literal("banner")>>
                \o [k \in 1 .. Len(results) |-> Block(k, results[k])]
                \o <<Literal("instruction")>>)

get_context(results) ==
    IF results = <<>> THEN <<>>
    ELSE JoinLines(<<Literal("banner")>>
                     \o [k \in 1 .. Len(results) |-> Block(k, results[k])]
                     \o <<Literal("instruction")>>)

\* get_stats
get_stats(b, store, indexed) ==
    IF b = "chroma"
    THEN [total |-> Cardinality(DOMAIN store), is_indexed |-> indexed]
    ELSE [total |-> Cardinality(DOMAIN store),
          is_indexed |-> Cardinality(DOMAIN store) > 0]

----------------------------------------------------------------------------
(***************************************************************************)
(* The service: one backend, one caller at a time, a store that answers.   *)
(***************************************************************************)
TwoChunkText == <<Run("a", 1300), Run(" ", 1), Run("a", 200)>>
OneChunkText == <<Run("a", 200)>>
OtherChunkText == <<Run("a", 50), Run(".", 1), Run("a", 50)>>
ShortText == <<Run("a", 50)>>
BlankText == <<Run(" ", 50)>>

ContractPdf(readable, raw) ==
    FileOf(<<Name("", "Contract")>>, Name("", "a"), ".pdf", readable, raw)
RootTxt(raw) == FileOf(<<>>, Name("", "b"), ".txt", TRUE, raw)
DsStore == FileOf(<<>>, Name(".", "DS_Store"), "", TRUE, OneChunkText)
NotesBin == FileOf(<<>>, Name("", "notes"), ".bin", TRUE, OneChunkText)
CachedTxt ==
    FileOf(<<Name(".", "cache")>>, Name("", "x"), ".txt", TRUE, OneChunkText)

\* the directory trees index_documents is run on, in os.walk order
Corpora ==
    {h \o b \o a :
        h \in {<<>>, <<DsStore>>, <<NotesBin, CachedTxt>>},
        b \in {<<>>, <<RootTxt(BlankText)>>, <<RootTxt(ShortText)>>,
               <<RootTxt(OtherChunkText)>>},
        a \in {<<>>, <<ContractPdf(FALSE, <<>>)>>,
               <<ContractPdf(TRUE, TwoChunkText)>>,
               <<ContractPdf(TRUE, OneChunkText)>>}}

Queries == {<<Run("a", 30)>>}
Filters == {NoFilter, "", "Contract", "General", "Tort"}

Count == Cardinality(DOMAIN collection)

\* the call returned result
Returned(op, arg, result) ==
    [op |-> op, arg |-> arg, result |-> result, raised |-> FALSE]

\* the call ended with an exception that left it
Raised(op, arg) == [op |-> op, arg |-> arg, result |-> <<>>, raised |-> TRUE]

SvInit ==
    /\ backend \in {"chroma", "pinecone"}
    /\ service = "none"
    /\ collection = <<>>
    /\ is_indexed = FALSE
    /\ ix_pc = "idle"
    /\ ix_files = <<>>
    /\ ix_stats = ZeroStats
    /\ ix_all_chunks = <<>>
    /\ ix_i = 0
    /\ ix_writes = <<>>
    /\ ix_corpus = <<>>
    /\ gen = NoGen
    /\ last = NoLast
    /\ ScOff
    /\ hash_key = 0
    /\ genai_client \in IF backend = "pinecone" THEN BOOLEAN ELSE {FALSE}
    /\ random_state = Unseeded
    /\ em_first = <<>>
    /\ em_last = NoCall
    /\ ChunkIdle

\* RAGService.__init__ / PineconeRAGService.__init__ through get_rag_service
\* / get_pinecone_service
Construct ==
    /\ service = "none"
    /\ service' = "ready"
    /\ is_indexed' = IF backend = "chroma" THEN Count > 0 ELSE is_indexed
    /\ last' = Returned("construct", <<>>, <<>>)
    /\ UNCHANGED <<backend, collection, ixvars, gen, ckvars, scvars, emvars>>

\* what a call to the store does: it answers, or it raises (connectivity,
\* backend error)
StoreOutcomes == {"ok", "error"}

\* index_documents up to the walk, on one of the corpora: stats, the
\* clearing of the local collection inside try / except: pass (a failed
\* delete leaves the collection as it is), all_chunks = []
IndexStartCall(corpora, outcome) ==
    /\ service = "ready"
    /\ ix_pc = "idle"
    /\ \E corpus \in corpora :
          /\ ix_corpus' = corpus
          /\ ix_files' = Walk(corpus)
    /\ ix_pc' = "run"
    /\ ix_stats' = ZeroStats
    /\ ix_all_chunks' = <<>>
    /\ ix_i' = 0
    /\ ix_writes' = <<>>
    /\ collection' = IF backend = "chroma" /\ outcome = "ok"
                     THEN Cleared(collection)
                     ELSE collection
    /\ gen' = IF backend = "chroma"
              THEN [cleared |-> outcome = "ok", prior |-> DOMAIN collection]
              ELSE IF gen.cleared THEN gen
              ELSE [cleared |-> FALSE, prior |-> DOMAIN collection]
    /\ last' = NoLast
    /\ UNCHANGED <<backend, service, is_indexed, ckvars, scvars, emvars>>

IndexStart == IndexStartCall(Corpora, "ok")

\* one file of the walk
IndexVisit ==
    /\ ix_pc = "run"
    /\ ix_files # <<>>
    /\ LET r == VisitFile(ix_stats, ix_all_chunks, Head(ix_files))
       IN  /\ ix_stats' = r.stats
           /\ ix_all_chunks' = r.all_chunks
    /\ ix_files' = Tail(ix_files)
    /\ UNCHANGED <<backend, service, collection, is_indexed, ix_pc, ix_i,
                   ix_writes, ix_corpus, gen, last, ckvars, scvars, emvars>>

\* the locals of index_documents after the call ended
IndexIdle ==
    /\ ix_pc' = "idle"
    /\ ix_files' = <<>>
    /\ ix_stats' = ZeroStats
    /\ ix_all_chunks' = <<>>
    /\ ix_i' = 0
    /\ ix_writes' = <<>>
    /\ ix_corpus' = <<>>

\* (mutation) the slice runs one entry into the next batch
BatchAtOverlapping(all_chunks, i) ==
    SubSeq(all_chunks, i + 1, Min2(i + batch_size + 1, Len(all_chunks)))

\* batch = all_chunks[i:i + batch_size]
BatchAt(all_chunks, i) ==
    SubSeq(all_chunks, i + 1, Min2(i + batch_size, Len(all_chunks)))

\* (mutation) a write that raises has stored its entries
StoreWriteAnyway(outcome, before, after) == after

\* what the store holds after a write call: the entries are stored, or the
\* call raises and the store is as before
StoreWrite(outcome, before, after) == IF outcome = "ok" THEN after ELSE before

\* one batch: all_chunks[i:i + batch_size] is embedded (remote) and written;
\* when the write raises, the exception leaves index_documents
IndexUploadCall(outcome) ==
    /\ ix_pc = "run"
    /\ ix_files = <<>>
    /\ ix_i < Len(ix_all_chunks)
    /\ \E batch \in {BatchAt(ix_all_chunks, ix_i)} :
          /\ IF backend = "chroma"
             THEN /\ collection' = StoreWrite(outcome, collection,
                                              ChromaAdd(collection, batch))
                  /\ UNCHANGED random_state
             ELSE \E provider \in IF genai_client THEN {"ok", "error"}
                                                   ELSE {"error"} :
                     \E r \in {EmbedBatch(batch, genai_client, provider,
                                          hash_key, random_state, <<>>)} :
                        /\ collection' = StoreWrite(outcome, collection,
                                             PineconeUpsert(collection, batch,
                                                            r.vectors))
                        /\ random_state' = r.state
          /\ IF outcome = "ok"
             THEN ix_writes' = Append(ix_writes,
                                      [k \in 1 .. Len(batch) |-> batch[k].id])
             ELSE TRUE
    /\ IF outcome = "ok"
       THEN /\ ix_i' = ix_i + batch_size
            /\ UNCHANGED <<ix_pc, ix_files, ix_stats, ix_all_chunks, ix_corpus,
                           gen, last>>
       ELSE /\ IndexIdle
            /\ gen' = NoGen
            /\ last' = Raised("index_documents", ix_corpus)
    /\ UNCHANGED <<backend, service, is_indexed, ckvars, scvars, hash_key,
                   genai_client, em_first, em_last>>

IndexUpload == IndexUploadCall("ok")

\* after the last batch: is_indexed = True (local), return stats
IndexReturn ==
    /\ ix_pc = "run"
    /\ ix_files = <<>>
    /\ ix_i >= Len(ix_all_chunks)
    /\ is_indexed' = IF backend = "chroma" THEN TRUE ELSE is_indexed
    /\ last' = Returned("index_documents", ix_corpus,
                        [stats |-> ix_stats, ids |-> Ids(ix_all_chunks),
                         gen |-> gen])
    /\ gen' = NoGen
    /\ IndexIdle
    /\ UNCHANGED <<backend, service, collection, ckvars, scvars, emvars>>

\* PineconeRAGService.clear_index: the delete inside try / except Exception,
\* which prints the error; the call returns None either way
ClearIndexCall(outcome) ==
    /\ backend = "pinecone"
    /\ service = "ready"
    /\ ix_pc = "idle"
    /\ collection' = IF outcome = "ok" THEN Cleared(collection) ELSE collection
    /\ gen' = IF outcome = "ok"
              THEN [cleared |-> TRUE,
                    prior |-> DOMAIN collection
                                \cup (IF gen.cleared THEN gen.prior ELSE {})]
              ELSE gen
    /\ last' = Returned("clear_index", <<>>, <<>>)
    /\ UNCHANGED <<backend, service, is_indexed, ixvars, ckvars, scvars, emvars>>

ClearIndex == ClearIndexCall("ok")

\* the remote search embeds the query first
QueryEmbedded(query) ==
    IF backend = "chroma" THEN random_state
    ELSE get_embedding(genai_client, "ok", hash_key, random_state, query).state

\* the call reaches the store and the store raises: the local search
\* returns before it touches the store when is_indexed is False
StoreRaises(b, indexed, outcome) ==
    outcome = "error" /\ (b = "pinecone" \/ indexed)

\* search(query, n_results, category_filter): no try / except around the
\* store's count() and query()
SearchCall(outcome) ==
    /\ service = "ready"
    /\ ix_pc = "idle"
    /\ \E query \in Queries, n_results \in {1, 5}, category_filter \in Filters,
          rev \in BOOLEAN :
          LET arg == [query |-> query, n_results |-> n_results,
                      category_filter |-> category_filter]
          IN  /\ last' = IF StoreRaises(backend, is_indexed, outcome)
                         THEN Raised("search", arg)
                         ELSE Returned("search", arg,
                                       search(backend, collection, is_indexed,
                                              n_results, category_filter, rev))
              /\ random_state' = QueryEmbedded(query)
    /\ UNCHANGED <<backend, service, collection, is_indexed, ixvars, gen,
                   ckvars, scvars, hash_key, genai_client, em_first, em_last>>

Search == SearchCall("ok")

ContextResult(max_chunks, rev) ==
    LET results == search(backend, collection, is_indexed, max_chunks,
                          NoFilter, rev)
    IN  [results |-> results, context |-> get_context(results)]

\* get_context_for_query(query, max_chunks): an exception of search leaves it
GetContextCall(outcome) ==
    /\ service = "ready"
    /\ ix_pc = "idle"
    /\ \E query \in Queries, max_chunks \in {1, 8}, rev \in BOOLEAN :
          LET arg == [query |-> query, max_chunks |-> max_chunks]
          IN  /\ last' = IF StoreRaises(backend, is_indexed, outcome)
                         THEN Raised("get_context_for_query", arg)
                         ELSE Returned("get_context_for_query", arg,
                                       ContextResult(max_chunks, rev))
              /\ random_state' = QueryEmbedded(query)
    /\ UNCHANGED <<backend, service, collection, is_indexed, ixvars, gen,
                   ckvars, scvars, hash_key, genai_client, em_first, em_last>>

GetContext == GetContextCall("ok")

\* get_relevant_context constructs the local service when there is none
\* (the constructor asks the store for its count); get_pinecone_context
\* returns "" when there is none.  The record is what the call leaves:
\* whether it raised, what it returned, the service and its flag.
module_context(outcome, max_chunks, rev) ==
    IF backend = "pinecone" /\ service = "none"
    THEN [raised |-> FALSE, result |-> [results |-> <<>>, context |-> <<>>],
          service |-> service, is_indexed |-> is_indexed, embedded |-> FALSE]
    ELSE IF backend = "chroma" /\ service = "none" /\ outcome = "error"
    THEN [raised |-> TRUE, result |-> <<>>,
          service |-> service, is_indexed |-> is_indexed, embedded |-> FALSE]
    ELSE LET indexed == IF backend = "chroma" /\ service = "none"
                        THEN Count > 0 ELSE is_indexed
             results == search(backend, collection, indexed, max_chunks,
                               NoFilter, rev)
         IN  IF StoreRaises(backend, indexed, outcome)
             THEN [raised |-> TRUE, result |-> <<>>, service |-> "ready",
                   is_indexed |-> indexed, embedded |-> TRUE]
             ELSE [raised |-> FALSE,
                   result |-> [results |-> results,
                               context |-> get_context(results)],
                   service |-> "ready", is_indexed |-> indexed,
                   embedded |-> TRUE]

\* get_relevant_context(query, max_chunks) / get_pinecone_context(...)
ModuleContextCall(outcome) ==
    /\ ix_pc = "idle"
    /\ \E query \in Queries, max_chunks \in {8}, rev \in BOOLEAN :
          LET arg == [query |-> query, max_chunks |-> max_chunks]
              r == module_context(outcome, max_chunks, rev)
          IN  /\ service' = r.service
              /\ is_indexed' = r.is_indexed
              /\ last' = IF r.raised THEN Raised("module_context", arg)
                         ELSE Returned("module_context", arg, r.result)
              /\ random_state' = IF r.embedded THEN QueryEmbedded(query)
                                 ELSE random_state
    /\ UNCHANGED <<backend, collection, ixvars, gen, ckvars, scvars, hash_key,
                   genai_client, em_first, em_last>>

ModuleContext == ModuleContextCall("ok")

\* send_message_with_docs of gemini_service.py, up to the RAG part: the
\* context of get_relevant_context is put in front of the prompt when it is
\* not empty; an exception is printed and the prompt goes without it
SendMessage(outcome) ==
    /\ backend = "chroma"
    /\ ix_pc = "idle"
    /\ \E query \in Queries, max_chunks \in {8}, rev \in BOOLEAN :
          LET arg == [query |-> query, max_chunks |-> max_chunks]
              r == module_context(outcome, max_chunks, rev)
          IN  /\ service' = r.service
              /\ is_indexed' = r.is_indexed
              /\ last' = Returned("send_message_with_docs", arg,
                                  [parts |-> IF r.raised THEN <<>>
                                             ELSE r.result.context,
                                   warned |-> r.raised])
    /\ UNCHANGED <<backend, collection, ixvars, gen, ckvars, scvars, emvars>>

\* get_stats(): the local one asks the store for its count; the remote one
\* answers zero vectors when describe_index_stats raises
GetStatsCall(outcome) ==
    /\ service = "ready"
    /\ ix_pc = "idle"
    /\ last' = IF outcome = "ok"
               THEN Returned("get_stats", <<>>,
                             get_stats(backend, collection, is_indexed))
               ELSE IF backend = "chroma" THEN Raised("get_stats", <<>>)
               ELSE Returned("get_stats", <<>>,
                             [total |-> 0, is_indexed |-> FALSE])
    /\ UNCHANGED <<backend, service, collection, is_indexed, ixvars, gen,
                   ckvars, scvars, emvars>>

GetStats == GetStatsCall("ok")

\* the process ends and another one starts, with its own hash key; the
\* store stays
Shutdown ==
    /\ service = "ready"
    /\ ix_pc = "idle"
    /\ service' = "none"
    /\ is_indexed' = FALSE
    /\ random_state' = Unseeded
    /\ hash_key' \in IF backend = "pinecone" THEN HashKeys ELSE {hash_key}
    /\ last' = NoLast
    /\ UNCHANGED <<backend, collection, ixvars, gen, ckvars, scvars, genai_client,
                   em_first, em_last>>

Next ==
    \/ Construct
    \/ IndexStart
    \/ IndexVisit
    \/ IndexUpload
    \/ IndexReturn
    \/ ClearIndex
    \/ Search
    \/ GetContext
    \/ ModuleContext
    \/ GetStats
    \/ Shutdown

Spec == SvInit /\ [][Next]_vars

----------------------------------------------------------------------------
(***************************************************************************)
(* The service with a store that may fail: every call to the store either  *)
(* answers or raises.                                                      *)
(***************************************************************************)
FaultCorpora ==
    {<<RootTxt(OtherChunkText)>>,
     <<ContractPdf(TRUE, TwoChunkText)>>,
     <<RootTxt(ShortText), ContractPdf(FALSE, <<>>)>>}

FaultIndexStart == \E outcome \in StoreOutcomes : IndexStartCall(FaultCorpora, outcome)
FaultIndexUpload == \E outcome \in StoreOutcomes : IndexUploadCall(outcome)
FaultSearch == \E outcome \in StoreOutcomes : SearchCall(outcome)
FaultGetContext == \E outcome \in StoreOutcomes : GetContextCall(outcome)
FaultModuleContext == \E outcome \in StoreOutcomes : ModuleContextCall(outcome)
FaultSendMessage == \E outcome \in StoreOutcomes : SendMessage(outcome)
FaultGetStats == \E outcome \in StoreOutcomes : GetStatsCall(outcome)
FaultClearIndex == \E outcome \in StoreOutcomes : ClearIndexCall(outcome)

FaultNext ==
    \/ Construct
    \/ FaultIndexStart
    \/ IndexVisit
    \/ FaultIndexUpload
    \/ IndexReturn
    \/ FaultClearIndex
    \/ FaultSearch
    \/ FaultGetContext
    \/ FaultModuleContext
    \/ FaultSendMessage
    \/ FaultGetStats
    \/ Shutdown

SpecFault == SvInit /\ [][FaultNext]_vars

----------------------------------------------------------------------------
(***************************************************************************)
(* index_documents on folders of many files, so that the chunk list of a   *)
(* run fills several batches; the store may fail at the clear and at every *)
(* write.  Every file holds the same text of two chunks.  The embedder has *)
(* no provider client: its vectors are the fallback's.                     *)
(***************************************************************************)
MaxBatchFiles == 101

BatchFile(k) ==
    FileOf(<<>>, Name("", "f" \o ToString(k)), ".txt", TRUE, TwoChunkText)

\* a folder of n files, in os.walk order
BatchCorpus(n) == [k \in 1 .. n |-> BatchFile(k)]

\* no file, one file, files for exactly one batch, for one batch and two
\* entries, for exactly two batches, and for more than two
BatchCorpora ==
    {BatchCorpus(n) : n \in {0, 1, batch_size \div 2, batch_size \div 2 + 1,
                             batch_size, MaxBatchFiles}}

BatchInit ==
    /\ SvInit
    /\ genai_client = FALSE

BatchIndexStart ==
    \E outcome \in StoreOutcomes : IndexStartCall(BatchCorpora, outcome)

BatchNext ==
    \/ Construct
    \/ BatchIndexStart
    \/ IndexVisit
    \/ FaultIndexUpload
    \/ IndexReturn
    \/ FaultClearIndex

SpecBatch == BatchInit /\ [][BatchNext]_vars

----------------------------------------------------------------------------
(***************************************************************************)
(* The sidebar block of streamlit_app.py.  Every browser session runs the  *)
(* script in a thread of its own with its own st.session_state; all of     *)
(* them share the module-level RAGService.  A session is                   *)
(*   pc: "script" (the script is about to run the block), "index" (it has  *)
(*       called index_documents), "walk", "upload" (inside the call),      *)
(*       "shown" (the script ended and the page waits for the user);       *)
(*   auto_index_triggered, rag_indexing: its st.session_state;             *)
(*   button: the page shows the "Index Law Documents" button;              *)
(*   stats, all_chunks, i: the locals of its index_documents call.         *)
(***************************************************************************)
MaxSessions == 2
Sessions == 1 .. MaxSessions

\* the resources folder shipped with the app
AppCorpora ==
    {<<RootTxt(OtherChunkText)>>,
     <<RootTxt(OtherChunkText), ContractPdf(TRUE, TwoChunkText)>>}

NewSession ==
    [pc |-> "script", auto_index_triggered |-> FALSE, rag_indexing |-> FALSE,
     button |-> FALSE, stats |-> ZeroStats, all_chunks |-> <<>>, i |-> 0]

\* the whole walk of index_documents: every file in os.walk order
RECURSIVE WalkAll(_, _, _)
WalkAll(files, stats, all_chunks) ==
    IF files = <<>> THEN [stats |-> stats, all_chunks |-> all_chunks]
    ELSE LET r == VisitFile(stats, all_chunks, Head(files))
         IN  WalkAll(Tail(files), r.stats, r.all_chunks)

ConcInit ==
    /\ backend = "chroma"
    /\ service = "none"
    /\ collection = <<>>
    /\ is_indexed = FALSE
    /\ ix_pc = "off"
    /\ ix_files = <<>>
    /\ ix_stats = ZeroStats
    /\ ix_all_chunks = <<>>
    /\ ix_i = 0
    /\ ix_writes = <<>>
    /\ ix_corpus \in AppCorpora
    /\ gen = NoGen
    /\ last = NoLast
    /\ sessions = [s \in Sessions |-> NewSession]
    /\ peer = <<>>
    /\ EmIdle
    /\ ChunkIdle

ConcUnchanged == UNCHANGED <<backend, ixvars, gen, last, peer, ckvars, emvars>>

\* the block up to the call of index_documents: get_rag_service(),
\* get_stats(), the auto-index test with st.rerun(), the rag_indexing test
Sidebar(s) ==
    /\ sessions[s].pc = "script"
    /\ service' = "ready"
    /\ is_indexed' = IF service = "none" THEN Count > 0 ELSE is_indexed
    /\ LET stats == get_stats(backend, collection, is_indexed')
           me == sessions[s]
       IN  sessions' = [sessions EXCEPT ![s] =
              IF stats.total = 0 /\ ~me.auto_index_triggered
              THEN [me EXCEPT !.auto_index_triggered = TRUE,
                              !.rag_indexing = TRUE]
              ELSE IF me.rag_indexing
              THEN [me EXCEPT !.pc = "index"]
              ELSE [me EXCEPT !.pc = "shown",
                              !.button = (stats.total = 0)]]
    /\ UNCHANGED collection
    /\ ConcUnchanged

\* index_documents up to the walk: stats, the clearing of the collection
RunClear(s) ==
    /\ sessions[s].pc = "index"
    /\ collection' = Cleared(collection)
    /\ sessions' = [sessions EXCEPT ![s] =
          [@ EXCEPT !.pc = "walk", !.stats = ZeroStats, !.all_chunks = <<>>,
                    !.i = 0]]
    /\ UNCHANGED <<service, is_indexed>>
    /\ ConcUnchanged

\* the walk: it reads the files and writes locals only
RunWalk(s) ==
    /\ sessions[s].pc = "walk"
    /\ LET r == WalkAll(Walk(ix_corpus), ZeroStats, <<>>)
       IN  sessions' = [sessions EXCEPT ![s] =
              [@ EXCEPT !.pc = "upload", !.stats = r.stats,
                        !.all_chunks = r.all_chunks]]
    /\ UNCHANGED <<service, collection, is_indexed>>
    /\ ConcUnchanged

\* one batch of the session's run
RunUpload(s) ==
    /\ sessions[s].pc = "upload"
    /\ sessions[s].i < Len(sessions[s].all_chunks)
    /\ LET me == sessions[s]
           batch == BatchAt(me.all_chunks, me.i)
       IN  collection' = ChromaAdd(collection, batch)
    /\ sessions' = [sessions EXCEPT ![s] = [@ EXCEPT !.i = @ + batch_size]]
    /\ UNCHANGED <<service, is_indexed>>
    /\ ConcUnchanged

\* is_indexed = True, return stats; the block stores the result, resets
\* rag_indexing and reruns the script
RunReturn(s) ==
    /\ sessions[s].pc = "upload"
    /\ sessions[s].i >= Len(sessions[s].all_chunks)
    /\ is_indexed' = TRUE
    /\ sessions' = [sessions EXCEPT ![s] =
          [@ EXCEPT !.pc = "script", !.rag_indexing = FALSE,
                    !.all_chunks = <<>>, !.i = 0]]
    /\ UNCHANGED <<service, collection>>
    /\ ConcUnchanged

\* the user presses "Index Law Documents"
ClickIndex(s) ==
    /\ sessions[s].pc = "shown"
    /\ sessions[s].button
    /\ sessions' = [sessions EXCEPT ![s] =
          [@ EXCEPT !.pc = "script", !.rag_indexing = TRUE,
                    !.button = FALSE]]
    /\ UNCHANGED <<service, collection, is_indexed>>
    /\ ConcUnchanged

\* any other interaction reruns the script
Interact(s) ==
    /\ sessions[s].pc = "shown"
    /\ sessions' = [sessions EXCEPT ![s] =
          [@ EXCEPT !.pc = "script", !.button = FALSE]]
    /\ UNCHANGED <<service, collection, is_indexed>>
    /\ ConcUnchanged

ConcNext ==
    \E s \in Sessions :
        \/ Sidebar(s)
        \/ RunClear(s)
        \/ RunWalk(s)
        \/ RunUpload(s)
        \/ RunReturn(s)
        \/ ClickIndex(s)
        \/ Interact(s)

SpecConc == ConcInit /\ [][ConcNext]_vars

\* the session is inside index_documents, past the clearing of the
\* collection
Running(s) == sessions[s].pc \in {"walk", "upload"}

\* C11: Re-entrancy guard.  No two sessions are inside index_documents on
\* the shared collection at the same time: none clears the collection or
\* writes a batch while the run of another has cleared it and not returned.
C11_ReentrancyGuard ==
    \A s, t \in Sessions : (Running(s) /\ Running(t)) => s = t

----------------------------------------------------------------------------
(***************************************************************************)
(* The two services side by side: every operation is applied to the local  *)
(* service (backend, collection, is_indexed) and to the remote one (peer,  *)
(* with the embedder's variables), on the same arguments.                  *)
(***************************************************************************)
PairCorpora == FaultCorpora \cup {<<>>}

\* the batch loop of index_documents from offset i on
RECURSIVE UploadAll(_, _, _, _, _, _, _, _)
UploadAll(b, store, all_chunks, i, client, provider, key, state) ==
    IF i >= Len(all_chunks) THEN [store |-> store, state |-> state]
    ELSE LET batch == BatchAt(all_chunks, i)
         IN  IF b = "chroma"
             THEN UploadAll(b, ChromaAdd(store, batch), all_chunks,
                            i + batch_size, client, provider, key, state)
             ELSE LET r == EmbedBatch(batch, client, provider, key, state, <<>>)
                  IN  UploadAll(b, PineconeUpsert(store, batch, r.vectors),
                                all_chunks, i + batch_size, client, provider,
                                key, r.state)

\* index_documents from call to return, with a store that answers: the
\* walk's result w, then the batches
index_documents(b, store, corpus, client, provider, key, state) ==
    LET w == CHOOSE x \in {WalkAll(Walk(corpus), ZeroStats, <<>>)} : TRUE
        u == CHOOSE x \in
                 {UploadAll(b, IF b = "chroma" THEN Cleared(store) ELSE store,
                            w.all_chunks, 0, client, provider, key, state)} :
                 TRUE
    IN  [store |-> u.store, stats |-> w.stats, state |-> u.state]

PairInit ==
    /\ backend = "chroma"
    /\ service = "ready"
    /\ collection = <<>>
    /\ is_indexed = FALSE
    /\ ix_pc = "off"
    /\ ix_files = <<>>
    /\ ix_stats = ZeroStats
    /\ ix_all_chunks = <<>>
    /\ ix_i = 0
    /\ ix_writes = <<>>
    /\ ix_corpus = <<>>
    /\ gen = NoGen
    /\ last = NoLast
    /\ sessions = <<>>
    /\ peer = [collection |-> <<>>]
    /\ hash_key = 0
    /\ genai_client \in BOOLEAN
    /\ random_state = Unseeded
    /\ em_first = <<>>
    /\ em_last = NoCall
    /\ ChunkIdle

PairUnchanged ==
    UNCHANGED <<backend, service, ixvars, gen, sessions, ckvars, hash_key,
                genai_client, em_first, em_last>>

\* index_documents(resources_path) on both
PairIndex ==
    /\ \E corpus \in PairCorpora,
          provider \in IF genai_client THEN {"ok", "error"} ELSE {"error"} :
          \E l \in {index_documents("chroma", collection, corpus, FALSE,
                                     "ok", hash_key, random_state)},
             r \in {index_documents("pinecone", peer.collection, corpus,
                                     genai_client, provider, hash_key,
                                     random_state)} :
              /\ collection' = l.store
              /\ is_indexed' = TRUE
              /\ peer' = [peer EXCEPT !.collection = r.store]
              /\ random_state' = r.state
              /\ last' = Returned("index_documents", corpus,
                                  [local |-> l.stats, remote |-> r.stats])
    /\ PairUnchanged

\* search(query, n_results, category_filter) on both
PairSearch ==
    /\ \E query \in Queries, n_results \in {5}, category_filter \in Filters,
          rev \in BOOLEAN :
          /\ last' = Returned("search",
                        [query |-> query, n_results |-> n_results,
                         category_filter |-> category_filter],
                        [local |-> search("chroma", collection, is_indexed,
                                          n_results, category_filter, rev),
                         remote |-> search("pinecone", peer.collection, FALSE,
                                           n_results, category_filter, rev)])
          /\ random_state' = get_embedding(genai_client, "ok", hash_key,
                                           random_state, query).state
    /\ UNCHANGED <<collection, is_indexed, peer>>
    /\ PairUnchanged

\* get_stats() on both
PairGetStats ==
    /\ last' = Returned("get_stats", <<>>,
                        [local |-> get_stats("chroma", collection, is_indexed),
                         remote |-> get_stats("pinecone", peer.collection,
                                              FALSE)])
    /\ UNCHANGED <<collection, is_indexed, peer, random_state>>
    /\ PairUnchanged

PairNext == PairIndex \/ PairSearch \/ PairGetStats

SpecPair == PairInit /\ [][PairNext]_vars

----------------------------------------------------------------------------
(***************************************************************************)
(* Properties of chunk_text.                                               *)
(***************************************************************************)
ChunkDone == ck_pc = "done"

\* position p lies in the span of a chunk the call returned
InSomeChunk(p) ==
    \E i \in 1 .. Len(ck_wins) :
        ck_wins[i].emit /\ ck_wins[i].lo <= p /\ p < ck_wins[i].hi

\* C1: Coverage.  After chunk_text on a text of length >= 100, every
\* character that is not leading or trailing whitespace of its window lies
\* in the span of a returned chunk, dropped windows included.
C1_Coverage ==
    (ChunkDone /\ StrLen(ck_text) >= MinTextLen) =>
        \A i \in 1 .. Len(ck_wins) :
            \A p \in ck_wins[i].lo .. (ck_wins[i].hi - 1) : InSomeChunk(p)

\* C2: Overlap invariant.  For every two consecutive returned chunks the
\* last chunk_overlap characters of the first equal the first chunk_overlap
\* characters of the second; the final chunk is exempt, so the pair that
\* ends in it is left out.
C2_Overlap ==
    ChunkDone =>
        \A k \in 1 .. Len(ck_chunks) - 2 :
            Suffix(ck_chunks[k].text, chunk_overlap)
                = Prefix(ck_chunks[k + 1].text, chunk_overlap)

\* C3: Minimum length.  Every returned chunk is its own trimmed text and is
\* longer than 50 characters, and a text shorter than 100 characters (the
\* empty text included) yields no chunk.
C3_MinimumLength ==
    ChunkDone =>
        /\ \A k \in 1 .. Len(ck_chunks) :
              /\ Strip(ck_chunks[k].text) = ck_chunks[k].text
              /\ StrLen(ck_chunks[k].text) > MinChunkLen
        /\ StrLen(ck_text) < MinTextLen => ck_chunks = <<>>

\* a window whose trimmed slice has exactly 50 characters was dropped next to
\* a returned chunk
C3_Witness ==
    /\ ChunkDone
    /\ ck_chunks # <<>>
    /\ \E i \in 1 .. Len(ck_wins) :
          ~ck_wins[i].emit /\ StrLen(ck_wins[i].text) = MinChunkLen

\* C4: Idempotent id.  A second call with the same text, source_file and
\* category returns the same list (ids, indexes, texts, in order); and for
\* the same source_file the id at each chunk_index is the same whatever the
\* text and the category of the two calls.
C4_IdempotentId ==
    (ChunkDone /\ ck_prev # <<>>) =>
        LET p == ck_prev[1] IN
        /\ (p.text = ck_text /\ p.source_file = ck_src /\ p.category = ck_cat)
              => p.chunks = ck_chunks
        /\ p.source_file = ck_src =>
              \A k \in 1 .. Min2(Len(p.chunks), Len(ck_chunks)) :
                  /\ p.chunks[k].chunk_index = ck_chunks[k].chunk_index
                  /\ p.chunks[k].id = ck_chunks[k].id

\* the file was chunked again after an edit: both calls returned chunks and
\* the first chunks differ in text
C4_Witness ==
    /\ ChunkDone
    /\ ck_prev # <<>>
    /\ ck_prev[1].chunks # <<>>
    /\ ck_chunks # <<>>
    /\ ck_prev[1].chunks[1].text # ck_chunks[1].text

\* the call was made on a text of the scenario's length
ScenarioDone == ChunkDone /\ StrLen(ck_text) = ScenarioLen

\* C12(original): chunk_text on a 3,400-character text returns exactly 3
\* chunks with chunk_index 0, 1, 2, each of at least 50 characters, wherever
\* the sentence ends fall.
C12_ThreeChunks ==
    ScenarioDone =>
        /\ Len(ck_chunks) = 3
        /\ \A k \in 1 .. Len(ck_chunks) :
              /\ ck_chunks[k].chunk_index = k - 1
              /\ StrLen(ck_chunks[k].text) >= MinChunkLen

\* C12: chunk_text on a 3,400-character text cuts exactly 3 windows wherever
\* the sentence ends fall; it returns the windows whose trimmed text is
\* longer than 50 characters, with chunk_index 0, 1, ... in order: exactly 3
\* chunks with chunk_index 0, 1, 2 when no window trims to 50 characters or
\* fewer.
C12_ThreeWindows ==
    ScenarioDone =>
        /\ Len(ck_wins) = 3
        /\ Len(ck_chunks)
              = Cardinality({i \in 1 .. Len(ck_wins) : ck_wins[i].emit})
        /\ \A k \in 1 .. Len(ck_chunks) :
              /\ ck_chunks[k].chunk_index = k - 1
              /\ StrLen(ck_chunks[k].text) >= MinChunkLen
        /\ (\A i \in 1 .. Len(ck_wins) : StrLen(ck_wins[i].text) > MinChunkLen)
              => Len(ck_chunks) = 3

\* a 3,400-character text whose second window was moved back to a sentence
\* end and then dropped: two chunks, the one after the gap with index 1
C12_Witness ==
    /\ ScenarioDone
    /\ Len(ck_wins) = 3
    /\ ck_wins[2].end < ck_wins[2].start + chunk_size
    /\ ~ck_wins[2].emit
    /\ Len(ck_chunks) = 2
    /\ ck_chunks[2].chunk_index = 1

\* the least advance of the cursor in one iteration: the window is snapped
\* back by at most SnapWindow - 1 and the overlap is taken off its end
MinAdvance == chunk_size - (SnapWindow - 1) - chunk_overlap

\* C20: Chunker termination.  The loop of chunk_text ends for every text:
\* the cursor is never negative, every window ends at least 1301 characters
\* after its start, every iteration moves the cursor forward by at least
\* 1101, the iterations are bounded by the text length, and the call returns
\* what the loop collected.
C20_ChunkerTerminates ==
    /\ [](Cursor >= 0)
    /\ [](\A i \in 1 .. Len(ck_wins) :
             /\ ck_wins[i].end >= ck_wins[i].start + MinAdvance + chunk_overlap
             /\ ck_wins[i].end <= ck_wins[i].start + chunk_size)
    /\ [][(ck_pc = "loop" /\ ck_pc' = "loop") => Cursor' >= Cursor + MinAdvance]_vars
    /\ [](Len(ck_wins) * MinAdvance <= StrLen(ck_text) + MinAdvance)
    /\ [](ChunkDone => ck_chunks = chunk_text(ck_text, ck_src, ck_cat))
    /\ <>ChunkDone

\* the loop ended after three iterations, one of them with the window
\* snapped back as far as the loop looks (199 characters)
C20_Witness ==
    /\ ChunkDone
    /\ Len(ck_wins) = 3
    /\ \E i \in 1 .. Len(ck_wins) :
          ck_wins[i].end = ck_wins[i].start + MinAdvance + chunk_overlap

\* the positions of the sentence ends among the SnapWindow characters of
\* the text before position cand
TerminalsBefore(cand) ==
    {p \in (cand - SnapWindow) .. (cand - 1) :
        p >= 0 /\ p < StrLen(ck_text) /\ CharAt(ck_text, p) \in SentenceEnd}

\* C21: Sentence snapping.  In every iteration, with the candidate end at
\* cursor + 1500: (a) when the candidate end is before the end of the text
\* and a sentence end occurs among the 200 characters before it, the window
\* ends right after the occurrence nearest to the candidate end; (b) when
\* none occurs the end stays at cursor + 1500; (c) when the candidate end is
\* at or past the end of the text nothing is snapped and the window runs to
\* the end of the text.
C21_SentenceSnapping ==
    ChunkDone =>
        \A i \in 1 .. Len(ck_wins) :
            LET w == ck_wins[i]
                cand == w.start + chunk_size
                T == TerminalsBefore(cand)
            IN  /\ (cand < StrLen(ck_text) /\ T # {}) =>
                      /\ w.end = MaxOf(T) + 1
                      /\ CharAt(ck_text, w.end - 1) \in SentenceEnd
                      /\ \A p \in w.end .. (cand - 1) :
                            CharAt(ck_text, p) \notin SentenceEnd
                /\ (cand < StrLen(ck_text) /\ T = {}) => w.end = cand
                /\ cand >= StrLen(ck_text) =>
                      /\ w.end = cand
                      /\ w.text = Strip(Slice(ck_text, w.start, StrLen(ck_text)))

\* a call whose first window was moved back to the nearest of several
\* sentence ends, with a window kept at the hard cutoff or run to the end of
\* the text after it
C21_Witness ==
    /\ ChunkDone
    /\ Len(ck_wins) >= 2
    /\ Cardinality(TerminalsBefore(chunk_size)) >= 2
    /\ ck_wins[1].end < chunk_size
    /\ ck_wins[Len(ck_wins)].end = ck_wins[Len(ck_wins)].start + chunk_size

\* C22: Sequential chunk_index.  The chunks chunk_text returns carry the
\* indexes 0, 1, ..., n-1 in list order, one chunk per window that passed the
\* floor, without gap or repeat: a dropped window does not consume an index.
C22_SequentialIndex ==
    ChunkDone =>
        /\ Len(ck_chunks)
              = Cardinality({i \in 1 .. Len(ck_wins) : ck_wins[i].emit})
        /\ \A k \in 1 .. Len(ck_chunks) : ck_chunks[k].chunk_index = k - 1
        /\ \A j, k \in 1 .. Len(ck_chunks) :
              j # k => ck_chunks[j].chunk_index # ck_chunks[k].chunk_index

\* a window was dropped and a later window was returned as a chunk
C22_Witness ==
    /\ ChunkDone
    /\ ck_chunks # <<>>
    /\ \E i, j \in 1 .. Len(ck_wins) :
          i < j /\ ~ck_wins[i].emit /\ ck_wins[j].emit

\* the number of characters of s that are not whitespace
RECURSIVE NonBlank(_)
NonBlank(s) ==
    IF s = <<>> THEN 0
    ELSE (IF Head(s).c \in Whitespace THEN 0 ELSE Head(s).n) + NonBlank(Tail(s))

\* the windows that passed the floor, in loop order
EmittedWindows == SelectSeq(ck_wins, LAMBDA w : w.emit)

\* C30: Chunk bounds.  Every returned chunk is a contiguous substring of the
\* source text of at most chunk_size characters; the windows start at
\* strictly increasing positions and the chunks are in window order; a text
\* of 100 to 1300 characters with more than 50 non-blank ones yields exactly
\* one chunk, the whole trimmed text.
C30_ChunkBounds ==
    ChunkDone =>
        /\ Len(ck_chunks) = Len(EmittedWindows)
        /\ \A k \in 1 .. Len(ck_chunks) :
              LET w == EmittedWindows[k]
              IN  /\ ck_chunks[k].text = Slice(ck_text, w.lo, w.hi)
                  /\ 0 <= w.lo /\ w.lo < w.hi /\ w.hi <= StrLen(ck_text)
                  /\ w.start <= w.lo /\ w.hi <= w.end
                  /\ StrLen(ck_chunks[k].text) <= chunk_size
        /\ \A i \in 1 .. Len(ck_wins) - 1 : ck_wins[i].start < ck_wins[i + 1].start
        /\ \A k \in 1 .. Len(ck_chunks) - 1 :
              /\ EmittedWindows[k].start < EmittedWindows[k + 1].start
              /\ EmittedWindows[k].lo <= EmittedWindows[k + 1].lo
        /\ (/\ StrLen(ck_text) >= MinTextLen
            /\ StrLen(ck_text) <= chunk_size - chunk_overlap
            /\ NonBlank(ck_text) > MinChunkLen) =>
              /\ Len(ck_chunks) = 1
              /\ ck_chunks[1].text = Strip(ck_text)

\* a text of exactly chunk_size - overlap characters came back as one chunk
C30_Witness ==
    /\ ChunkDone
    /\ StrLen(ck_text) = chunk_size - chunk_overlap
    /\ Len(ck_chunks) = 1
    /\ ck_chunks[1].text = ck_text

----------------------------------------------------------------------------
(***************************************************************************)
(* Properties of the service.                                              *)
(***************************************************************************)
LastIs(op) == last.op = op
ContextOps == {"get_context_for_query", "module_context"}

\* C6: Empty-store safety.  With zero entries in the store, search returns
\* the empty list and get_context_for_query (also through the module-level
\* functions) returns the empty str; and the context is the empty str
\* exactly when the search behind it returned no result.
C6_EmptyStoreSafety ==
    /\ (LastIs("search") /\ Count = 0) => Len(last.result) = 0
    /\ last.op \in ContextOps =>
          /\ Count = 0 => Len(last.result.context) = 0
          /\ Len(last.result.context) = 0 <=> Len(last.result.results) = 0

\* the local service indexed a corpus that produced no chunk and was then
\* asked for context
C6_Witness ==
    /\ LastIs("get_context_for_query")
    /\ backend = "chroma"
    /\ is_indexed
    /\ Count = 0
    /\ Len(last.result.context) = 0

\* C7: Category filter correctness.  A search with category_filter = X
\* returns only results that are entries of the store whose stored category
\* is X.
C7_CategoryFilter ==
    (LastIs("search") /\ last.arg.category_filter \notin {NoFilter, ""}) =>
        \A k \in 1 .. Len(last.result) :
            /\ last.result[k].category = last.arg.category_filter
            /\ \E id \in DOMAIN collection :
                  /\ collection[id].metadata.category = last.arg.category_filter
                  /\ collection[id].metadata.source_file
                        = last.result[k].source_file
                  /\ last.result[k].text
                        = IF backend = "chroma" THEN collection[id].document
                          ELSE collection[id].metadata.full_text

\* a filtered search returned a result while the store also held an entry
\* of another category
C7_Witness ==
    /\ LastIs("search")
    /\ last.arg.category_filter = "Contract"
    /\ last.arg.n_results = 5
    /\ Len(last.result) > 0
    /\ \E id \in DOMAIN collection :
          collection[id].metadata.category = "General"

\* C8: Re-index replacement.  When the store was cleared and a corpus was
\* then indexed, the total of get_stats is the number of chunks of that
\* corpus and no id of the prior generation that the run did not write is
\* left.  (The local index_documents clears the collection itself.)
C8_ReindexReplacement ==
    (LastIs("index_documents") /\ last.result.gen.cleared) =>
        /\ get_stats(backend, collection, is_indexed).total
              = last.result.stats.chunks
        /\ (last.result.gen.prior \ last.result.ids) \cap DOMAIN collection = {}

\* clear_index, then index_documents on a corpus without some chunk that the
\* remote store held before
C8_Witness ==
    /\ LastIs("index_documents")
    /\ backend = "pinecone"
    /\ last.result.gen.cleared
    /\ last.result.stats.chunks > 0
    /\ last.result.gen.prior \ last.result.ids # {}

\* C9: Full replacement by re-indexing.  After every index_documents run
\* that returns, the ids in the store are exactly the ids of the chunks of
\* that run, on both backends.
C9_FullReplacement ==
    LastIs("index_documents") => DOMAIN collection = last.result.ids

\* the text a vector was computed from
TextOfVector(v) == v.of.text

\* C15: One embedding per persisted chunk.  Every entry of the remote store
\* carries one vector of the configured dimension, computed from the full
\* text of the chunk the entry is for: by the provider from its first 8000
\* characters, or by the fallback from all of it.
C15_OneEmbeddingPerChunk ==
    backend = "pinecone" =>
        \A id \in DOMAIN collection :
            LET e == collection[id]
                v == e.values
            IN  /\ id = ChunkId(e.metadata.source_file, e.metadata.category,
                                e.metadata.full_text, e.metadata.chunk_index)
                /\ v.dim = embedding_dimension
                /\ v.from = 0
                /\ v.kind \in {"random", "text-embedding-004"}
                /\ v.kind = "random" =>
                      TextOfVector(v) = e.metadata.full_text
                /\ v.kind = "text-embedding-004" =>
                      TextOfVector(v)
                          = Slice(e.metadata.full_text, 0, EmbedInputLimit)

\* a run on the remote service returned after storing a chunk longer than
\* the metadata excerpt with a fallback vector, next to another chunk
C15_Witness ==
    /\ backend = "pinecone"
    /\ LastIs("index_documents")
    /\ Count >= 2
    /\ \E id \in DOMAIN collection :
          /\ collection[id].values.kind = "random"
          /\ StrLen(collection[id].metadata.full_text) > MetadataTextLimit

\* C16: Query resilience.  When the store's query fails, search returns
\* the empty list and get_context_for_query returns the empty str, on both
\* backends: neither call ends with an exception.
C16_QueryResilience ==
    last.op \in {"search", "get_context_for_query"} => ~last.raised

\* C17: A run of index_documents always ends by returning its stats: no
\* call of it ends with an exception.
C17_IndexAlwaysReturns ==
    LastIs("index_documents") =>
        /\ ~last.raised
        /\ DOMAIN last.result.stats
              = {"processed", "chunks", "errors", "skipped"}

\* what an entry of either store says about its chunk
ChunkOfEntry(b, e) ==
    [source_file |-> e.metadata.source_file, category |-> e.metadata.category,
     chunk_index |-> e.metadata.chunk_index,
     text |-> IF b = "chroma" THEN e.document ELSE e.metadata.full_text]

\* C18: Backend substitutability.  After every operation of a sequence of
\* index_documents, search and get_stats applied to both services, the two
\* stores hold the same chunk ids with the same source_file, category,
\* chunk_index and full text, and the two get_stats report the same total
\* and the same is_indexed.
C18_BackendSubstitutable ==
    peer # <<>> =>
        /\ DOMAIN collection = DOMAIN peer.collection
        /\ \A id \in DOMAIN collection \cap DOMAIN peer.collection :
              ChunkOfEntry("chroma", collection[id])
                  = ChunkOfEntry("pinecone", peer.collection[id])
        /\ get_stats("chroma", collection, is_indexed)
              = get_stats("pinecone", peer.collection, FALSE)

\* C19: Stats are derived from the store.  Every get_stats reports the
\* number of entries the store holds and is_indexed = TRUE exactly when that
\* number is positive; so after a run that produced no chunk it reports zero
\* entries and is_indexed = FALSE.
C19_StatsFromStore ==
    LastIs("get_stats") =>
        /\ last.result.total = Count
        /\ last.result.is_indexed <=> (last.result.total > 0)

\* C23: Id uniqueness.  Within one run of index_documents, two chunk records
\* with different (source_file, chunk_index) have different ids and no two
\* records of the list handed to the store share an id, so the number of
\* distinct ids written is the `chunks` count of the run.
C23_IdUniqueness ==
    /\ \A j, k \in 1 .. Len(ix_all_chunks) :
          LET c == ix_all_chunks[j]
              d == ix_all_chunks[k]
          IN  /\ (c.source_file # d.source_file \/ c.chunk_index # d.chunk_index)
                    => c.id # d.id
              /\ j # k => c.id # d.id
    /\ ix_pc = "run" => Cardinality(Ids(ix_all_chunks)) = ix_stats.chunks
    /\ LastIs("index_documents") =>
          /\ Cardinality(last.result.ids) = last.result.stats.chunks
          /\ last.result.ids \subseteq DOMAIN collection

\* a run over two files returned: three chunks, two of them with the same
\* chunk_index in different files
C23_Witness ==
    /\ LastIs("index_documents")
    /\ last.result.stats.processed = 2
    /\ last.result.stats.chunks = 3
    /\ Cardinality({collection[id].metadata.source_file :
                       id \in last.result.ids}) = 2

\* the files of a corpus the walk hands to the extractor
Extracted(corpus) ==
    {k \in 1 .. Len(Walk(corpus)) : ~Skipped(Walk(corpus)[k])}
FailingIn(corpus) ==
    {k \in Extracted(corpus) : extract_text(Walk(corpus)[k]) = <<>>}

\* C10: Extraction failure isolation.  A run returns with errors = the
\* number of files whose extraction failed or gave empty text, processed =
\* the number of the other extracted files, and the chunks of every one of
\* those in the store.
C10_ExtractionIsolation ==
    LastIs("index_documents") =>
        LET corpus == last.arg
            files == Walk(corpus)
        IN  /\ last.result.stats.errors = Cardinality(FailingIn(corpus))
            /\ last.result.stats.processed
                  = Cardinality(Extracted(corpus) \ FailingIn(corpus))
            /\ \A k \in Extracted(corpus) \ FailingIn(corpus) :
                  Ids(chunk_text(extract_text(files[k]), RelPath(files[k]),
                                 CategoryOf(files[k])))
                      \subseteq DOMAIN collection

\* one unreadable PDF and one valid text file: errors = 1, processed = 1
C10_Witness ==
    /\ LastIs("index_documents")
    /\ last.arg = <<RootTxt(OtherChunkText), ContractPdf(FALSE, <<>>)>>
    /\ last.result.stats.errors = 1
    /\ last.result.stats.processed = 1
    /\ Count = 1

\* the files of a corpus that lie below no hidden directory
Found(corpus) ==
    {k \in 1 .. Len(corpus) :
        \A d \in 1 .. Len(corpus[k].dir) : corpus[k].dir[d].lead # "."}

\* the number of chunks of file k of the corpus
RECURSIVE SumChunks(_, _)
SumChunks(corpus, ks) ==
    IF ks = {} THEN 0
    ELSE LET k == CHOOSE x \in ks : TRUE
         IN  Len(chunk_text(extract_text(corpus[k]), RelPath(corpus[k]),
                            CategoryOf(corpus[k])))
                 + SumChunks(corpus, ks \ {k})

\* C29: Stats accounting.  When index_documents returns, every file below a
\* non-hidden directory of the root is counted once: names starting with
\* `.` or `~$` under skipped, files whose extracted text is empty under
\* errors, the others under processed, also when they yield no chunk; and
\* chunks is the sum of the chunk counts of the processed files, the number
\* of records handed to the store.
C29_StatsAccounting ==
    LastIs("index_documents") =>
        LET corpus == last.arg
            st == last.result.stats
            hidden == {k \in Found(corpus) :
                         corpus[k].name.lead \in {".", "~$"}}
            empty == {k \in Found(corpus) \ hidden :
                        extract_text(corpus[k]) = <<>>}
            others == (Found(corpus) \ hidden) \ empty
        IN  /\ st.processed + st.errors + st.skipped
                  = Cardinality(Found(corpus))
            /\ st.skipped = Cardinality(hidden)
            /\ st.errors = Cardinality(empty)
            /\ st.processed = Cardinality(others)
            /\ st.chunks = SumChunks(corpus, others)
            /\ st.chunks = Cardinality(last.result.ids)

\* a run returned with a hidden file skipped, an unreadable file counted as
\* an error and a file too short for a chunk counted as processed
C29_Witness ==
    /\ LastIs("index_documents")
    /\ last.result.stats.skipped = 1
    /\ last.result.stats.errors = 1
    /\ last.result.stats.processed = 1
    /\ last.result.stats.chunks = 0

\* the search returned results that map the matches one to one
MapsMatches(results, matches) ==
    /\ Len(results) = Len(matches)
    /\ \A k \in 1 .. Len(matches) :
          LET e == collection[matches[k].id]
              r == results[k]
          IN  /\ r.source_file = e.metadata.source_file
              /\ r.category = e.metadata.category
              /\ backend = "chroma" =>
                    /\ r.relevance_score = 1000 - matches[k].measure
                    /\ r.text = e.document
              /\ backend = "pinecone" =>
                    /\ r.relevance_score = matches[k].measure
                    /\ r.text = e.metadata.full_text
              /\ matches[k].id = ChunkId(r.source_file, r.category, r.text,
                                         e.metadata.chunk_index)

\* C27: Result mapping.  search returns one result per match of the
\* backend, in the backend's order and never more than n_results; the
\* relevance_score is 1 - distance on the local backend and the score itself
\* on the remote one (measures are in thousandths), and text, source_file
\* and category are those stored for the chunk: the remote backend returns
\* the full text, not the copy cut at 1000 characters.
C27_ResultMapping ==
    (LastIs("search") /\ ~last.raised) =>
        LET results == last.result
            n == last.arg.n_results
            where == WhereOf(last.arg.category_filter)
        IN  /\ Len(results) <= n
            /\ \/ backend = "chroma" /\ (~is_indexed \/ Count = 0)
                      /\ results = <<>>
               \/ \E rev \in BOOLEAN :
                      MapsMatches(results,
                                  Query(backend, collection, n, where, rev))

\* a remote search with n_results = 1 on a store of several chunks returned
\* one result whose text is longer than the copy kept in the metadata
C27_Witness ==
    /\ LastIs("search")
    /\ backend = "pinecone"
    /\ last.arg.n_results = 1
    /\ Count >= 2
    /\ Len(last.result) = 1
    /\ StrLen(last.result[1].text) > MetadataTextLimit

\* the document blocks of a context, in the order of the text
BlocksOf(context) == SelectSeq(context, LAMBDA p : p.kind = "document")

\* pct is int(score * 100) for a score given in thousandths
IsPctOf(pct, score) ==
    IF score >= 0
    THEN pct * 10 <= score /\ score < pct * 10 + 10
    ELSE pct * 10 >= score /\ score > pct * 10 - 10

\* C28: Context block structure.  For a result list of n >= 1 results
\* get_context_for_query returns a text that starts with the banner, ends
\* with the instruction trailer and has exactly n blocks numbered 1..n in
\* rank order; block i carries result i's source_file, category and
\* int(relevance_score * 100), and as excerpt the first 1200 characters of
\* the result text, followed by `...` exactly when the text is longer.
C28_ContextBlocks ==
    (LastIs("get_context_for_query") /\ ~last.raised
        /\ last.result.results # <<>>) =>
        LET results == last.result.results
            context == last.result.context
            blocks == BlocksOf(context)
        IN  /\ context[1].kind = "banner"
            /\ context[Len(context)].kind = "instruction"
            /\ Cardinality({k \in 1 .. Len(context) :
                               context[k].kind \in {"banner", "instruction"}}) = 2
            /\ \A k \in 1 .. Len(context) :
                  context[k].kind = "newline" <=> k % 2 = 0
            /\ Len(blocks) = Len(results)
            /\ \A k \in 1 .. Len(blocks) :
                  /\ blocks[k].i = k
                  /\ blocks[k].source_file = results[k].source_file
                  /\ blocks[k].category = results[k].category
                  /\ IsPctOf(blocks[k].pct, results[k].relevance_score)
                  /\ StrLen(blocks[k].excerpt)
                        = Min2(StrLen(results[k].text), ExcerptLimit)
                  /\ blocks[k].excerpt
                        = Slice(results[k].text, 0, StrLen(blocks[k].excerpt))
                  /\ blocks[k].ellipsis
                        <=> StrLen(results[k].text) > ExcerptLimit

\* a context of several blocks, one cut at 1200 characters and marked, one
\* with its whole text and no mark
C28_Witness ==
    /\ LastIs("get_context_for_query")
    /\ ~last.raised
    /\ Len(last.result.results) >= 2
    /\ \E j, k \in 1 .. Len(BlocksOf(last.result.context)) :
          /\ BlocksOf(last.result.context)[j].ellipsis
          /\ ~BlocksOf(last.result.context)[k].ellipsis

\* C26: Store-level failures inside index_documents propagate.  A failed
\* clearing or re-creation of the collection at the start of a run, like a
\* failed batch write, reaches the caller: a run whose clear failed does not
\* go on to the walk and the writes and does not return stats, and a
\* clear_index that returned has emptied the store.
C26_StoreFailuresPropagate ==
    /\ (backend = "chroma" /\ ix_pc = "run") => gen.cleared
    /\ (backend = "chroma" /\ LastIs("index_documents") /\ ~last.raised)
          => last.result.gen.cleared
    /\ (LastIs("clear_index") /\ ~last.raised) => Count = 0

\* the ids the write calls of the current run have stored
WrittenIds ==
    UNION {{ix_writes[c][j] : j \in 1 .. Len(ix_writes[c])} :
             c \in 1 .. Len(ix_writes)}

\* the step ends a run of index_documents by its return
ReturnStep == ix_pc = "run" /\ last'.op = "index_documents" /\ ~last'.raised

\* the step ends a run of index_documents by an exception
RaiseStep == ix_pc = "run" /\ last'.op = "index_documents" /\ last'.raised

\* C24: Batched writes.  index_documents writes the chunk list of the run
\* in consecutive slices in list order: every write call carries 1 to 100
\* entries, every call but the last exactly 100, each chunk is written in
\* exactly one call, a run that returns has made ceil(n / 100) calls (none
\* for n = 0), and nothing is written before the walk has extracted and
\* chunked every file.
C24_BatchedWrites ==
    /\ [](ix_pc = "run" =>
            /\ ix_files # <<>> => ix_writes = <<>>
            /\ \A c \in 1 .. Len(ix_writes) :
                  /\ Len(ix_writes[c]) >= 1
                  /\ Len(ix_writes[c]) <= batch_size
                  /\ c < Len(ix_writes) => Len(ix_writes[c]) = batch_size
                  /\ \A j \in 1 .. Len(ix_writes[c]) :
                        /\ (c - 1) * batch_size + j <= Len(ix_all_chunks)
                        /\ ix_writes[c][j]
                              = ix_all_chunks[(c - 1) * batch_size + j].id)
    /\ [][(ix_pc = "run" /\ ix_files # <<>>) => collection' = collection]_vars
    /\ [][ReturnStep =>
            /\ Len(ix_writes) = (Len(ix_all_chunks) + batch_size - 1)
                                    \div batch_size
            /\ \A k \in 1 .. Len(ix_all_chunks) :
                  Cardinality({c \in 1 .. Len(ix_writes) :
                                 \E j \in 1 .. Len(ix_writes[c]) :
                                    ix_writes[c][j] = ix_all_chunks[k].id}) = 1]_vars

\* a run has written two batches of 100 entries and a last one of fewer
C24_Witness ==
    /\ ix_pc = "run"
    /\ Len(ix_writes) = 3
    /\ Len(ix_writes[1]) = batch_size
    /\ Len(ix_writes[2]) = batch_size
    /\ Len(ix_writes[3]) < batch_size
    /\ ix_i >= Len(ix_all_chunks)

=============================================================================
